---- MODULE Spec2Model ----
(***************************************************************************)
(* Model of the DatePicker Month component (calendar grid, two-click range *)
(* selection and per-cell classification).                                 *)
(*                                                                         *)
(* The Month component itself (handleDateClick, renderWeek and the helpers *)
(* hoveringDateIsInRange, isDateEnd, isDateStart) is translated from the   *)
(* component source.  The date utilities it imports from utilities/dates   *)
(* (isSameDay, isDateBefore, isDateAfter, getNewRange, getWeeksForMonth,   *)
(* getOrderedWeekdays, dateIsSelected, dateIsInRange) are modelled from    *)
(* their written contract.                                                 *)
(***************************************************************************)
EXTENDS Integers, Sequences, FiniteSets, TLC

VARIABLES
    allowRange,     \* prop allowRange (fixed for one instance)
    multiDate,      \* prop multiDate (fixed for one instance)
    firstLabel,     \* accessibilityLabelPrefixes[0]: a label or Undefined
    selected,       \* prop selected: absent, a Range or a Date[]
    hoverDate,      \* prop hoverDate: a date or NoDate
    prevSelected,   \* value of selected when the last click was handled
    clickedDate,    \* argument of the last handleDateClick call, or NoDate
    cell,           \* props handed to the last rendered Day, or NoCell
    month,          \* prop month, 0..11
    year,           \* prop year
    weekStartsOn,   \* prop weekStartsOn, 0..6
    weeks           \* memoised result of getWeeksForMonth

selVars  == <<allowRange, multiDate, firstLabel, selected, hoverDate, prevSelected, clickedDate, cell>>
gridVars == <<month, year, weekStartsOn, weeks>>
vars     == <<allowRange, multiDate, firstLabel, selected, hoverDate, prevSelected, clickedDate, cell,
              month, year, weekStartsOn, weeks>>

----------------------------------------------------------------------------
(* Bounds *)

\* number of consecutive calendar days that can be clicked, hovered and rendered
MaxDates == 5
\* longest Date[] selection followed in multi-date mode
MaxList == 3
\* number of consecutive years for which month grids are built
MaxYears == 2

----------------------------------------------------------------------------
(* JavaScript Date values: a local-midnight date is a (year, month, date)   *)
(* triple, month zero-indexed.                                             *)

mkDate(y, m, d) == [year |-> y, month |-> m, date |-> d]

\* undefined / null where a Date is expected
NoDate == mkDate(0, 0, 0)

\* days since 1970-01-01 of a calendar date (proleptic Gregorian)
dayNumber(dt) ==
    LET m   == dt.month + 1
        y   == IF m <= 2 THEN dt.year - 1 ELSE dt.year
        era == y \div 400
        yoe == y - era * 400
        mp  == IF m > 2 THEN m - 3 ELSE m + 9
        doy == (153 * mp + 2) \div 5 + dt.date - 1
        doe == yoe * 365 + yoe \div 4 - yoe \div 100 + doy
    IN  era * 146097 + doe - 719468

\* Date.prototype.valueOf(), used by the relational operators on Dates. Every
\* Date here is a local midnight, so the timestamp is kept in whole days.
getTime(dt) == dayNumber(dt)

\* Date.prototype.getDay(): 0 = Sunday
getDay(dt) == (dayNumber(dt) + 4) % 7

\* new Date(year, month + 1, 0).getDate(): the last day of the month
lastDayOfMonth(m, y) ==
    LET next == IF m = 11 THEN mkDate(y + 1, 0, 1) ELSE mkDate(y, m + 1, 1)
    IN  dayNumber(next) - dayNumber(mkDate(y, m, 1))

\* the dates the model clicks, hovers and renders: MaxDates consecutive days
\* from 30 December 2023, across a month and a year boundary
DateSet ==
    LET first == dayNumber(mkDate(2023, 11, 30))
    IN  { dt \in { mkDate(y, m, d) : y \in {2023, 2024}, m \in {0, 11}, d \in 1..31 } :
            dayNumber(dt) \in first..(first + MaxDates - 1) }

----------------------------------------------------------------------------
(* utilities/dates *)

isSameDay(a, b) ==
    /\ a # NoDate
    /\ b # NoDate
    /\ a.year = b.year
    /\ a.month = b.month
    /\ a.date = b.date

isDateBefore(a, b) ==
    \/ a.year < b.year
    \/ a.year = b.year /\ a.month < b.month
    \/ a.year = b.year /\ a.month = b.month /\ a.date < b.date

isDateAfter(a, b) ==
    \/ a.year > b.year
    \/ a.year = b.year /\ a.month > b.month
    \/ a.year = b.year /\ a.month = b.month /\ a.date > b.date

\* the three shapes of the selected prop
Absent == [kind |-> "absent", start |-> NoDate, end |-> NoDate, dates |-> <<>>]
Range(s, e) == [kind |-> "range", start |-> s, end |-> e, dates |-> <<>>]
List(ds) == [kind |-> "list", start |-> NoDate, end |-> NoDate, dates |-> ds]

getNewRange(range, clicked) ==
    IF range.kind = "absent" THEN Range(clicked, clicked)
    ELSE IF ~isSameDay(range.start, range.end) THEN Range(clicked, clicked)
    ELSE IF isDateBefore(clicked, range.start) THEN Range(clicked, range.start)
    ELSE Range(range.start, clicked)

dateIsSelected(day, selection) ==
    IF day = NoDate THEN FALSE
    ELSE IF selection.kind = "list"
         THEN \E i \in 1..Len(selection.dates) : isSameDay(selection.dates[i], day)
         ELSE isSameDay(selection.start, day) \/ isSameDay(selection.end, day)

dateIsInRange(day, range) ==
    /\ day # NoDate
    /\ range.start # NoDate
    /\ range.end # NoDate
    /\ ~isSameDay(range.start, range.end)
    /\ ~isDateBefore(day, range.start)
    /\ ~isDateAfter(day, range.end)


\* the ordered weekday indices of a week row starting at weekStartsOn
getOrderedWeekdays(wso) == [i \in 1..7 |-> (wso + i - 1) % 7]

\* zero-based position of a weekday in a week row
indexOf(row, weekday) == (CHOOSE i \in 1..Len(row) : row[i] = weekday) - 1

\* a run of n empty slots
emptySlots(n) == [i \in 1..n |-> NoDate]

getWeeksForMonth(m, y, wso) ==
    LET firstOfMonth   == mkDate(y, m, 1)
        firstDayOfWeek == getDay(firstOfMonth)
        leading        == indexOf(getOrderedWeekdays(wso), firstDayOfWeek)
        days           == [d \in 1..lastDayOfMonth(m, y) |-> mkDate(y, m, d)]
        filled         == emptySlots(leading) \o days
        trailing       == (7 - (Len(filled) % 7)) % 7
        slots          == filled \o emptySlots(trailing)
    IN  [w \in 1..(Len(slots) \div 7) |-> SubSeq(slots, 7 * (w - 1) + 1, 7 * w)]

----------------------------------------------------------------------------
(* Month component *)

\* an accessibility label prefix that is not configured
Undefined == "undefined"

\* accessibilityLabelPrefixes[1]
lastLabel == "last"

\* variant: the grid is built without the weekStartsOn prop
MonthWeeksSundayFirst(m, y, wso) == getWeeksForMonth(m, y, 0)

\* const weeks = useMemo(() => getWeeksForMonth(month, year, weekStartsOn), ...)
MonthWeeks(m, y, wso) == getWeeksForMonth(m, y, wso)

\* variant: the two branches of handleDateClick exchanged
handleDateClickBranchesSwapped(allow, multi, sel, selectedDate) ==
    IF ~(multi /\ sel.kind = "list")
    THEN List(Append(sel.dates, selectedDate))
    ELSE getNewRange(IF allow THEN sel ELSE Absent, selectedDate)

\* variant: the allowRange ternary inverted
handleDateClickTernaryInverted(allow, multi, sel, selectedDate) ==
    IF multi /\ sel.kind = "list"
    THEN List(Append(sel.dates, selectedDate))
    ELSE getNewRange(IF allow THEN Absent ELSE sel, selectedDate)

\* variant: the current selection is passed on whatever allowRange is
handleDateClickAlwaysRange(allow, multi, sel, selectedDate) ==
    IF multi /\ sel.kind = "list"
    THEN List(Append(sel.dates, selectedDate))
    ELSE getNewRange(sel, selectedDate)

\* variant: a present range is extended to the clicked date (start kept)
\* instead of going through getNewRange
handleDateClickStartKept(allow, multi, sel, selectedDate) ==
    IF multi /\ sel.kind = "list"
    THEN List(Append(sel.dates, selectedDate))
    ELSE IF allow /\ sel.kind = "range"
         THEN Range(sel.start, selectedDate)
         ELSE getNewRange(IF allow THEN sel ELSE Absent, selectedDate)

\* the value handleDateClick passes to onChange
handleDateClick(allow, multi, sel, selectedDate) ==
    IF multi /\ sel.kind = "list"
    THEN List(Append(sel.dates, selectedDate))
    ELSE getNewRange(IF allow THEN sel ELSE Absent, selectedDate)

\* variant: day >= start in place of day > start
hoveringDateIsInRangeInclusive(day, range, hoverEndDate) ==
    IF day = NoDate THEN FALSE
    ELSE /\ isSameDay(range.start, range.end)
         /\ getTime(day) >= getTime(range.start)
         /\ getTime(day) <= getTime(hoverEndDate)

hoveringDateIsInRange(day, range, hoverEndDate) ==
    IF day = NoDate THEN FALSE
    ELSE /\ isSameDay(range.start, range.end)
         /\ getTime(day) > getTime(range.start)
         /\ getTime(day) <= getTime(hoverEndDate)

\* const isInHoveringRange = allowRange ? hoveringDateIsInRange : () => false
isInHoveringRange(allow, day, range, hoverEndDate) ==
    IF allow THEN hoveringDateIsInRange(day, range, hoverEndDate) ELSE FALSE

\* variant: the start of the range is read in place of its end
isDateEndReadsStart(day, range) ==
    IF day = NoDate THEN FALSE
    ELSE range.start # NoDate /\ isSameDay(range.start, day)

isDateEnd(day, range) ==
    IF day = NoDate THEN FALSE
    ELSE range.end # NoDate /\ isSameDay(range.end, day)

\* variant: the end of the range is read in place of its start
isDateStartReadsEnd(day, range) ==
    IF day = NoDate THEN FALSE
    ELSE range.end # NoDate /\ isSameDay(range.end, day)

isDateStart(day, range) ==
    IF day = NoDate THEN FALSE
    ELSE range.start # NoDate /\ isSameDay(range.start, day)

\* a present selected prop is truthy, an empty array included
truthy(sel) == sel.kind # "absent"

isFirstSelectedDay(allow, sel, day) ==
    allow /\ truthy(sel) /\ isDateStart(day, sel)

isLastSelectedDay(allow, sel, hover, day) ==
    /\ allow
    /\ truthy(sel)
    /\ \/ ~isSameDay(sel.start, sel.end) /\ isDateEnd(day, sel)
       \/ /\ hover # NoDate
          /\ isSameDay(sel.start, sel.end)
          /\ isDateAfter(hover, sel.start)
          /\ isSameDay(day, hover)
          /\ ~isFirstSelectedDay(allow, sel, day)

rangeIsDifferent(multi, sel) ==
    IF multi THEN FALSE
    ELSE ~(truthy(sel) /\ isSameDay(sel.start, sel.end))

\* variant: the last-day rule tested before the first-day rule, without else
accessibilityLabelPrefixLastOnly(allow, first, last, firstPrefix, lastPrefix) ==
    IF allow /\ last THEN lastPrefix
    ELSE IF ~allow /\ firstPrefix # Undefined THEN firstPrefix
    ELSE Undefined

\* the if / else if that picks selectedAccessibilityLabelPrefix
accessibilityLabelPrefix(allow, first, last, firstPrefix, lastPrefix) ==
    IF (allow /\ first) \/ (~allow /\ firstPrefix # Undefined)
    THEN firstPrefix
    ELSE IF allow /\ last THEN lastPrefix
    ELSE Undefined

\* nothing rendered since the props last changed
NoCell ==
    [rendered |-> FALSE, day |-> NoDate, prefix |-> Undefined, selected |-> FALSE,
     inRange |-> FALSE, inHoveringRange |-> FALSE, isLastSelectedDay |-> FALSE,
     isFirstSelectedDay |-> FALSE, isHoveringRight |-> FALSE, rangeIsDifferent |-> FALSE]

\* the props renderWeek hands to Day for one slot of a week row
renderWeek(day) ==
    IF day = NoDate
    THEN [NoCell EXCEPT !.rendered = TRUE]
    ELSE
      LET first == isFirstSelectedDay(allowRange, selected, day)
          last  == isLastSelectedDay(allowRange, selected, hoverDate, day)
      IN  [rendered           |-> TRUE,
           day                |-> day,
           prefix             |-> accessibilityLabelPrefix(allowRange, first, last,
                                                           firstLabel, lastLabel),
           selected           |-> selected.kind # "absent" /\ dateIsSelected(day, selected),
           inRange            |-> /\ allowRange
                                  /\ selected.kind # "absent"
                                  /\ dateIsInRange(day, selected),
           inHoveringRange    |-> /\ allowRange
                                  /\ selected.kind # "absent"
                                  /\ hoverDate # NoDate
                                  /\ isInHoveringRange(allowRange, day, selected, hoverDate),
           isLastSelectedDay  |-> last,
           isFirstSelectedDay |-> first,
           isHoveringRight    |-> hoverDate # NoDate /\ isDateBefore(day, hoverDate),
           rangeIsDifferent   |-> rangeIsDifferent(multiDate, selected)]

----------------------------------------------------------------------------
(* Selection machine: one Month instance whose owner stores what onChange   *)
(* and onHover deliver and passes it back as selected and hoverDate.        *)

Init ==
    /\ allowRange \in BOOLEAN
    /\ multiDate \in BOOLEAN
    /\ firstLabel \in {Undefined, "first"}
    /\ selected \in (IF multiDate THEN {Absent, List(<<>>)} ELSE {Absent})
    /\ hoverDate = NoDate
    /\ prevSelected = selected
    /\ clickedDate = NoDate
    /\ cell = NoCell
    /\ month = 11
    /\ year = 2023
    /\ weekStartsOn = 0
    /\ weeks = MonthWeeks(month, year, weekStartsOn)

\* Day calls onClick(day); the owner stores the value given to onChange
Click(d) ==
    /\ Len(selected.dates) < MaxList
    /\ selected' = handleDateClick(allowRange, multiDate, selected, d)
    /\ prevSelected' = selected
    /\ clickedDate' = d
    /\ cell' = NoCell
    /\ UNCHANGED <<allowRange, multiDate, firstLabel, hoverDate>>
    /\ UNCHANGED gridVars

\* Day calls onHover(day); the owner stores it as hoverDate
Hover(d) ==
    /\ hoverDate' = d
    /\ cell' = NoCell
    /\ UNCHANGED <<allowRange, multiDate, firstLabel, selected, prevSelected, clickedDate>>
    /\ UNCHANGED gridVars

\* week.map(renderWeek) reaches one slot: a day, or an empty slot
RenderDay(day) ==
    /\ cell' = renderWeek(day)
    /\ UNCHANGED <<allowRange, multiDate, firstLabel, selected, hoverDate, prevSelected, clickedDate>>
    /\ UNCHANGED gridVars

Next ==
    \/ \E d \in DateSet : Click(d)
    \/ \E d \in DateSet : Hover(d)
    \/ \E day \in DateSet \cup {NoDate} : RenderDay(day)

Spec == Init /\ [][Next]_vars

----------------------------------------------------------------------------
(* Grid: the Month is rendered for every (month, year, weekStartsOn).       *)

Years == 2023..(2023 + MaxYears - 1)

GridInit ==
    /\ allowRange = FALSE
    /\ multiDate = FALSE
    /\ firstLabel = Undefined
    /\ selected = Absent
    /\ hoverDate = NoDate
    /\ prevSelected = Absent
    /\ clickedDate = NoDate
    /\ cell = NoCell
    /\ month \in 0..11
    /\ year \in Years
    /\ weekStartsOn \in 0..6
    /\ weeks = MonthWeeks(month, year, weekStartsOn)

\* new month / year / weekStartsOn props: useMemo rebuilds the grid
Rerender(m, y, wso) ==
    /\ month' = m
    /\ year' = y
    /\ weekStartsOn' = wso
    /\ weeks' = MonthWeeks(m, y, wso)
    /\ UNCHANGED selVars

GridNext == \E m \in 0..11, y \in Years, wso \in 0..6 : Rerender(m, y, wso)

SpecGrid == GridInit /\ [][GridNext]_vars


----------------------------------------------------------------------------
(* Vocabulary of the properties: calendar order and the selection states,   *)
(* stated on the (year, month, date) components alone.                      *)

ord(dt) == dt.year * 10000 + dt.month * 100 + dt.date

RangeMode == allowRange /\ ~multiDate
SingleMode == ~allowRange /\ ~multiDate
Clicked == clickedDate # NoDate

IsRange(sel) == sel.kind = "range"
Degenerate(sel) == IsRange(sel) /\ sel.start = sel.end
Complete(sel) == IsRange(sel) /\ sel.start # sel.end

\* the day a range starts on
FirstDayOf(sel, day) == IsRange(sel) /\ day # NoDate /\ day = sel.start

\* the day that closes a range, or the hovered day that would close it
LastDayOf(sel, hover, day) ==
    /\ day # NoDate
    /\ \/ Complete(sel) /\ day = sel.end
       \/ /\ Degenerate(sel)
          /\ hover # NoDate
          /\ ord(hover) > ord(sel.start)
          /\ day = hover
          /\ day # sel.start

----------------------------------------------------------------------------
(* Properties of the selection machine *)

\* C1: in range mode a click on d with no selection or with a completed
\* (non-degenerate) range always yields the one-day range {d, d}
C1_ClickRestartsFromEmptyOrComplete ==
    (RangeMode /\ Clicked /\ (prevSelected.kind = "absent" \/ Complete(prevSelected)))
        => selected = Range(clickedDate, clickedDate)

C1_Witness ==
    /\ RangeMode /\ Clicked
    /\ Complete(prevSelected)
    /\ ord(prevSelected.start) < ord(clickedDate)
    /\ ord(clickedDate) < ord(prevSelected.end)
    /\ selected = Range(clickedDate, clickedDate)

\* C2: in range mode a click on d with a one-day range {s, s} yields {d, s}
\* when d is before s and {s, d} otherwise; clicking s again keeps {s, s}
C2_SecondClickOrdersEndpoints ==
    (RangeMode /\ Clicked /\ Degenerate(prevSelected))
        => /\ selected = (IF ord(clickedDate) < ord(prevSelected.start)
                          THEN Range(clickedDate, prevSelected.start)
                          ELSE Range(prevSelected.start, clickedDate))
           /\ (clickedDate = prevSelected.start => selected = prevSelected)

C2_Witness ==
    /\ RangeMode /\ Clicked
    /\ Degenerate(prevSelected)
    /\ clickedDate.year < prevSelected.start.year
    /\ selected = Range(clickedDate, prevSelected.start)

\* C3: in range mode, from an absent selection, every selection given to
\* onChange is a Range whose start is not after its end
C3_RangeIsOrdered ==
    RangeMode =>
        /\ selected.kind \in {"absent", "range"}
        /\ (selected.kind = "absent" <=> ~Clicked)
        /\ (IsRange(selected) => ord(selected.start) <= ord(selected.end))

C3_Witness ==
    /\ RangeMode /\ Clicked
    /\ Degenerate(prevSelected)
    /\ ord(clickedDate) < ord(prevSelected.start)
    /\ Complete(selected)
    /\ ord(selected.start) < ord(selected.end)

\* C4: in multi-date mode every click on d, whatever the selection is
\* (absent included), yields the previous list with d appended, and the
\* selection is never a Range
C4_MultiDateAlwaysAppends ==
    (multiDate /\ Clicked)
        => /\ selected = List(Append(prevSelected.dates, clickedDate))
           /\ ~IsRange(selected)

\* C10: in single-date mode every click on d yields the one-day range
\* {d, d}, whatever was selected before; no other range is reachable
C10_SingleModeSelectsClickedDay ==
    SingleMode =>
        /\ (Clicked => selected = Range(clickedDate, clickedDate))
        /\ ~Complete(selected)

C10_Witness ==
    /\ SingleMode /\ Clicked
    /\ Degenerate(prevSelected)
    /\ prevSelected.start # clickedDate
    /\ selected = Range(clickedDate, clickedDate)

----------------------------------------------------------------------------
(* Properties of the rendered cell. The cell is discarded whenever selected *)
(* or hoverDate change, so a rendered cell belongs to the current props.    *)

\* C6: inHoveringRange is true exactly when range mode is on, a selection
\* and a hover date are present, the range is one day long, and the day is
\* strictly after start and on or before the hover date
C6_HoveringRangeFlag ==
    cell.rendered =>
        (cell.inHoveringRange <=>
            /\ allowRange
            /\ selected.kind # "absent"
            /\ hoverDate # NoDate
            /\ Degenerate(selected)
            /\ cell.day # NoDate
            /\ ord(cell.day) > ord(selected.start)
            /\ ord(cell.day) <= ord(hoverDate))

C6_Witness ==
    /\ cell.rendered
    /\ cell.inHoveringRange
    /\ Degenerate(selected)
    /\ selected.start.year < cell.day.year
    /\ ord(cell.day) < ord(hoverDate)

\* C7: in range mode with a range selected, a day is the last selected day
\* exactly when it is the end of a non-degenerate range, or the range is one
\* day long and the day is the hover date, which lies after start
C7_LastSelectedDayFlag ==
    (allowRange /\ IsRange(selected) /\ cell.rendered)
        => /\ cell.isLastSelectedDay <=> LastDayOf(selected, hoverDate, cell.day)
           /\ (Degenerate(selected) /\ (hoverDate = NoDate \/ ord(hoverDate) <= ord(selected.start)))
                 => ~cell.isLastSelectedDay

C7_Witness ==
    /\ allowRange /\ cell.rendered
    /\ Degenerate(selected)
    /\ hoverDate # NoDate
    /\ ord(hoverDate) > ord(selected.start)
    /\ cell.day = hoverDate
    /\ cell.isLastSelectedDay

\* C8 as stated: the first label goes to the first selected day in range
\* mode and, outside range mode, to the selected days only; the last label
\* goes to the last selected day in range mode; every other day gets none
C8_PrefixOnlyOnSelectedDays ==
    cell.rendered =>
        cell.prefix =
            (IF allowRange
             THEN (IF FirstDayOf(selected, cell.day) THEN firstLabel
                   ELSE IF LastDayOf(selected, hoverDate, cell.day) THEN lastLabel
                   ELSE Undefined)
             ELSE (IF cell.selected THEN firstLabel ELSE Undefined))

\* C8 amended: outside range mode a configured first label is handed to
\* every cell that holds a day, selected or not; in range mode the first
\* label goes to the first selected day, the last label to the last selected
\* day, and no other cell gets a prefix
C8_PrefixChoice ==
    cell.rendered =>
        cell.prefix =
            (IF cell.day = NoDate THEN Undefined
             ELSE IF allowRange
             THEN (IF FirstDayOf(selected, cell.day) THEN firstLabel
                   ELSE IF LastDayOf(selected, hoverDate, cell.day) THEN lastLabel
                   ELSE Undefined)
             ELSE firstLabel)

C8_Witness ==
    /\ cell.rendered
    /\ ~allowRange
    /\ cell.day # NoDate
    /\ firstLabel # Undefined
    /\ IsRange(selected)
    /\ ~cell.selected
    /\ cell.prefix = firstLabel

\* C9: no day is both the first and the last selected day, and among all
\* days at most one is flagged first and at most one is flagged last
C9_FirstAndLastAreDistinct ==
    /\ cell.rendered => ~(cell.isFirstSelectedDay /\ cell.isLastSelectedDay)
    /\ \A d1, d2 \in DateSet :
         /\ (isFirstSelectedDay(allowRange, selected, d1)
               /\ isFirstSelectedDay(allowRange, selected, d2)) => d1 = d2
         /\ (isLastSelectedDay(allowRange, selected, hoverDate, d1)
               /\ isLastSelectedDay(allowRange, selected, hoverDate, d2)) => d1 = d2
         /\ ~(isFirstSelectedDay(allowRange, selected, d1)
               /\ isLastSelectedDay(allowRange, selected, hoverDate, d1))

C9_Witness ==
    /\ allowRange
    /\ Complete(selected)
    /\ cell.rendered
    /\ cell.day = selected.end
    /\ cell.isLastSelectedDay
    /\ ~cell.isFirstSelectedDay
    /\ isFirstSelectedDay(allowRange, selected, selected.start)

----------------------------------------------------------------------------
(* Property of the grid *)

\* days of a month, by the calendar rule
DaysIn(m, y) ==
    IF m = 1
    THEN (IF (y % 4 = 0 /\ y % 100 # 0) \/ y % 400 = 0 THEN 29 ELSE 28)
    ELSE IF m \in {3, 5, 8, 10} THEN 30 ELSE 31

\* weekday of the first of a month, 0 = Sunday, by the tabular method
WeekdayOfFirst(m, y) ==
    LET t  == <<0, 3, 2, 5, 0, 3, 5, 1, 4, 6, 2, 4>>
        yy == IF m < 2 THEN y - 1 ELSE y
    IN  (yy + yy \div 4 - yy \div 100 + yy \div 400 + t[m + 1] + 1) % 7

\* the slots of the grid, week by week, left to right
AllSlots == [i \in 1..(7 * Len(weeks)) |-> weeks[((i - 1) \div 7) + 1][((i - 1) % 7) + 1]]

IsDaySlot(s) == s # NoDate

\* C5: every week has 7 slots, the non-empty slots read in order are the
\* days 1..N of the month, and day 1 sits in the column of its weekday
\* counted from weekStartsOn modulo 7
C5_GridHoldsTheMonth ==
    LET column == (WeekdayOfFirst(month, year) - weekStartsOn + 7) % 7
    IN  /\ Len(weeks) >= 1
        /\ \A w \in 1..Len(weeks) : Len(weeks[w]) = 7
        /\ SelectSeq(AllSlots, IsDaySlot)
             = [d \in 1..DaysIn(month, year) |-> mkDate(year, month, d)]
        /\ weeks[1][column + 1] = mkDate(year, month, 1)

C5_Witness ==
    /\ weekStartsOn = 6
    /\ month = 1
    /\ year = 2024
    /\ Len(weeks) = 5
    /\ weeks[1][6] = mkDate(2024, 1, 1)
    /\ weeks[5][6] = mkDate(2024, 1, 29)
    /\ weeks[5][7] = NoDate

====
